---------------------------- MODULE Spec2Model ----------------------------
(***************************************************************************)
(* Model of directories_and_files.py: the FileManager session              *)
(* (startup prompt, directory navigator, file selector, operations menu,   *)
(* rename batch, delete batch, size report) over a small POSIX filesystem. *)
(*                                                                         *)
(* One action is one input() call returning: the handler of the line that  *)
(* was read, followed by everything the program does up to its next        *)
(* input() call (re-listing, menu display with its stat() calls, ...).     *)
(* The filesystem may be changed by other processes while the program      *)
(* waits at a prompt.                                                      *)
(***************************************************************************)
EXTENDS Integers, Sequences, FiniteSets, TLC

(***************************************************************************)
(* Bounds                                                                  *)
(***************************************************************************)
\* number of changes other processes make to the filesystem in one session
MaxExternal == 1

\* the longest byte count tried, in digits of base BYTES_PER_KB
MaxSizeDigits == 6

(***************************************************************************)
(* Text: a line is a sequence of one-character strings.                    *)
(***************************************************************************)
Whitespace == {" ", "\t"}

Digits == {"0", "1", "2", "3", "4", "5", "6", "7", "8", "9"}

\* str.lower() on the letters that occur in the modelled input
LowerChar(c) ==
  CASE c = "Y" -> "y" [] c = "E" -> "e" [] c = "S" -> "s" [] c = "Q" -> "q"
    [] c = "U" -> "u" [] c = "I" -> "i" [] c = "T" -> "t" [] c = "D" -> "d"
    [] c = "O" -> "o" [] c = "N" -> "n" [] c = "C" -> "c"
    [] OTHER -> c

Lower(s) == [i \in 1..Len(s) |-> LowerChar(s[i])]

RECURSIVE LStrip(_)
LStrip(s) == IF s # <<>> /\ Head(s) \in Whitespace THEN LStrip(Tail(s)) ELSE s

RECURSIVE RStrip(_)
RStrip(s) ==
  IF s # <<>> /\ s[Len(s)] \in Whitespace
    THEN RStrip(SubSeq(s, 1, Len(s) - 1))
    ELSE s

\* str.strip()
Strip(s) == RStrip(LStrip(s))

\* characters for which str.isdigit() is True although int() rejects them;
\* "^2" stands for the one character SUPERSCRIPT TWO (U+00B2)
OtherDigits == {"^2"}

\* str.isdigit()
IsDigit(s) ==
  s # <<>> /\ \A i \in 1..Len(s) : s[i] \in Digits \cup OtherDigits

\* int(s) raises ValueError
int_raises(s) == s = <<>> \/ \E i \in 1..Len(s) : s[i] \notin Digits

DigitVal(c) ==
  CASE c = "0" -> 0 [] c = "1" -> 1 [] c = "2" -> 2 [] c = "3" -> 3
    [] c = "4" -> 4 [] c = "5" -> 5 [] c = "6" -> 6 [] c = "7" -> 7
    [] c = "8" -> 8 [] c = "9" -> 9

\* int(s) for a string of decimal digits
RECURSIVE ToInt(_)
ToInt(s) ==
  IF s = <<>> THEN 0
  ELSE 10 * ToInt(SubSeq(s, 1, Len(s) - 1)) + DigitVal(s[Len(s)])

\* code points of the characters that occur in file names
CharCode(c) ==
  CASE c = "*" -> 42 [] c = "." -> 46 [] c = "/" -> 47
    [] c = "a" -> 97 [] c = "b" -> 98 [] c = "c" -> 99 [] c = "d" -> 100
    [] c = "s" -> 115 [] c = "t" -> 116 [] c = "z" -> 122

\* s < t for Python strings (lexicographic by code point)
RECURSIVE StrLess(_, _)
StrLess(s, t) ==
  IF t = <<>> THEN FALSE
  ELSE IF s = <<>> THEN TRUE
  ELSE IF s[1] # t[1] THEN CharCode(s[1]) < CharCode(t[1])
  ELSE StrLess(Tail(s), Tail(t))

(***************************************************************************)
(* Paths and the filesystem.  A path is the sequence of its components     *)
(* below the filesystem root; the root is the empty sequence.              *)
(***************************************************************************)
Root == <<>>

NameA == <<"a">>
NameB == <<"b">>
NameC == <<"c">>
NameD == <<"d">>
NameS == <<"s">>
NameT == <<"t">>
NameZ == <<"z">>
DotDot == <<".", ".">>

Names == {NameA, NameB, NameC, NameD, NameS, NameT}

DirS == <<NameS>>

\* every path the model's filesystem can hold an entry at
Paths == {Root} \cup {<<n>> : n \in Names} \cup {<<NameS, n>> : n \in Names}

\* what lstat() finds at a path:
\*   none       no entry
\*   file       regular file
\*   immutable  regular file that cannot be unlinked or renamed (EPERM)
\*   dir        directory
\*   symfile    symbolic link to a regular file outside the modelled paths
\*   symdir     symbolic link to the directory /s
\*   dangling   symbolic link whose target does not exist
Kinds == {"none", "file", "immutable", "dir", "symfile", "symdir", "dangling"}

\* PurePath.parent: the root is its own parent
Parent(p) == IF p = Root THEN Root ELSE SubSeq(p, 1, Len(p) - 1)

\* PurePath.name
Name(p) == IF p = Root THEN <<>> ELSE p[Len(p)]

\* the components of a path string
RECURSIVE SplitPath(_, _, _)
SplitPath(s, cur, acc) ==
  IF s = <<>> THEN (IF cur \in {<<>>, <<".">>} THEN acc ELSE Append(acc, cur))
  ELSE IF Head(s) = "/"
    THEN SplitPath(Tail(s), <<>>,
                   IF cur \in {<<>>, <<".">>} THEN acc ELSE Append(acc, cur))
    ELSE SplitPath(Tail(s), Append(cur, Head(s)), acc)

\* PurePath.__truediv__: the components of n are appended ("." is dropped,
\* ".." is kept as a component); an absolute n replaces p
Join(p, n) ==
  IF n # <<>> /\ Head(n) = "/"
    THEN SplitPath(n, <<>>, <<>>)
    ELSE p \o SplitPath(n, <<>>, <<>>)

\* the entry a path names once the kernel has walked its ".." components
Canon(p) ==
  IF p # Root /\ p[Len(p)] = DotDot THEN Parent(Parent(p)) ELSE p

KindAt(f, p) == IF Canon(p) \in Paths THEN f[Canon(p)] ELSE "none"

\* Path.is_symlink()
is_symlink(f, p) == KindAt(f, p) \in {"symfile", "symdir", "dangling"}

\* Path.is_dir(): follows symbolic links
is_dir(f, p) == KindAt(f, p) \in {"dir", "symdir"}

\* Path.is_file(): follows symbolic links
is_file(f, p) == KindAt(f, p) \in {"file", "immutable", "symfile"}

\* Path.exists(): follows symbolic links, so a dangling link does not exist
exists(f, p) == KindAt(f, p) \notin {"none", "dangling"}

\* Path.stat() succeeds (follows symbolic links); otherwise FileNotFoundError
stat_ok(f, p) == exists(f, p)

\* the entries of directory p
Children(f, p) ==
  {q \in Paths : q # Root /\ Parent(q) = p /\ f[q] # "none"}

\* sorted(): ascending by name (all elements share one parent)
RECURSIVE sorted(_)
sorted(S) ==
  IF S = {} THEN <<>>
  ELSE LET m == CHOOSE x \in S : \A y \in S \ {x} : StrLess(Name(x), Name(y))
       IN  <<m>> \o sorted(S \ {m})

(***************************************************************************)
(* Messages the program prints (only those the properties refer to).       *)
(***************************************************************************)
Msg(t) == [tag |-> t, path |-> Root, k |-> 0, n |-> 0]

MsgP(t, p) == [tag |-> t, path |-> p, k |-> 0, n |-> 0]

MsgK(t, kk, nn) == [tag |-> t, path |-> Root, k |-> kk, n |-> nn]

(***************************************************************************)
(* System calls                                                            *)
(***************************************************************************)
\* os.unlink(p): removes a file or a symbolic link itself
os_unlink(f, p) ==
  LET kd == KindAt(f, p) IN
  IF kd = "none" THEN [err |-> "ENOENT", fs |-> f]
  ELSE IF kd = "dir" THEN [err |-> "EISDIR", fs |-> f]
  ELSE IF kd = "immutable" THEN [err |-> "EPERM", fs |-> f]
  ELSE [err |-> "none", fs |-> [f EXCEPT ![Canon(p)] = "none"]]

\* os.rename(src, dst) on POSIX: an existing non-directory dst is replaced
\* silently, and so is a symbolic link at dst (rename does not follow it)
os_rename(f, src, dst) ==
  LET ks == KindAt(f, src)
      kd == KindAt(f, dst) IN
  IF ks = "none" THEN [err |-> "ENOENT", fs |-> f]
  ELSE IF Canon(dst) \notin Paths THEN [err |-> "ENOENT", fs |-> f]
  ELSE IF ks = "immutable" \/ kd = "immutable" THEN [err |-> "EPERM", fs |-> f]
  ELSE IF kd = "dir" THEN [err |-> "EISDIR", fs |-> f]
  ELSE IF Canon(src) = Canon(dst) THEN [err |-> "none", fs |-> f]
  ELSE [err |-> "none",
        fs |-> [f EXCEPT ![Canon(dst)] = ks, ![Canon(src)] = "none"]]

(***************************************************************************)
(* Path Lister                                                             *)
(***************************************************************************)
\* FileManager.get_directories: FileNotFoundError is caught (empty list);
\* NotADirectoryError from iterdir() on a non-directory is not
get_directories(f, path) ==
  IF ~exists(f, path) THEN [raised |-> FALSE, list |-> <<>>]
  ELSE IF ~is_dir(f, path) THEN [raised |-> TRUE, list |-> <<>>]
  ELSE [raised |-> FALSE,
        list |-> SelectSeq(sorted(Children(f, path)),
                           LAMBDA d : is_dir(f, d) /\ ~is_symlink(f, d))]

\* the filter without "and not f.is_symlink()"
get_files_with_links(f, path) ==
  IF ~is_dir(f, path) THEN <<>>
  ELSE SelectSeq(sorted(Children(f, path)), LAMBDA x : is_file(f, x))

\* FileManager.get_files: glob("*") yields nothing for a non-directory
get_files(f, path) ==
  IF ~is_dir(f, path) THEN <<>>
  ELSE SelectSeq(sorted(Children(f, path)),
                 LAMBDA x : is_file(f, x) /\ ~is_symlink(f, x))

(***************************************************************************)
(* Directory Navigator                                                     *)
(***************************************************************************)
\* Path | None
Some(p) == [isNone |-> FALSE, path |-> p]

None == [isNone |-> TRUE, path |-> Root]

AcceptWords == {<<>>, <<"y">>, <<"y", "e", "s">>}

QuitWords == {<<"q">>, <<"q", "u", "i", "t">>}

\* ascend without the guard against the root: no warning at the root
ascend_unguarded(current_path) ==
  [result |-> Some(Parent(current_path)), out |-> <<>>, raised |-> FALSE]

\* FileManager._handle_directory_choice, the ".." branch
ascend(current_path) ==
  LET parent == Parent(current_path) IN
  IF parent # current_path
    THEN [result |-> Some(parent), out |-> <<>>, raised |-> FALSE]
    ELSE [result |-> Some(current_path), out |-> <<Msg("at_root")>>,
          raised |-> FALSE]

\* FileManager._handle_directory_choice; raised is TRUE when int(choice)
\* raises ValueError, which nothing in the program catches
handle_directory_choice(choice, current_path, directories) ==
  IF choice \in AcceptWords
    THEN [result |-> Some(current_path), out |-> <<>>, raised |-> FALSE]
  ELSE IF choice \in QuitWords
    THEN [result |-> None, out |-> <<>>, raised |-> FALSE]
  ELSE IF choice = DotDot THEN ascend(current_path)
  ELSE IF IsDigit(choice) THEN
    IF int_raises(choice)
      THEN [result |-> Some(current_path), out |-> <<>>, raised |-> TRUE]
    ELSE
    LET idx == ToInt(choice) - 1 IN
    IF 0 <= idx /\ idx < Len(directories)
      THEN [result |-> Some(directories[idx + 1]), out |-> <<>>,
            raised |-> FALSE]
      ELSE [result |-> Some(current_path), out |-> <<Msg("invalid_choice")>>,
            raised |-> FALSE]
  ELSE [result |-> Some(current_path), out |-> <<Msg("invalid_input")>>,
        raised |-> FALSE]

\* one iteration of the loop of FileManager.choose_directory, after input():
\* ret is TRUE when the loop returns, and value is what it returns
choose_directory_step(choice, current_path, directories) ==
  LET h == handle_directory_choice(choice, current_path, directories) IN
  IF h.raised
    THEN [ret |-> FALSE, value |-> None, current_path |-> current_path,
          out |-> h.out, raised |-> TRUE]
  ELSE IF h.result.isNone
    THEN [ret |-> TRUE, value |-> None, current_path |-> current_path,
          out |-> h.out, raised |-> FALSE]
    ELSE LET cp == IF h.result.path # current_path
                     THEN h.result.path ELSE current_path IN
         [ret |-> choice \in AcceptWords, value |-> Some(cp),
          current_path |-> cp, out |-> h.out, raised |-> FALSE]

(***************************************************************************)
(* File Selector                                                           *)
(***************************************************************************)
InSeq(x, s) == \E i \in 1..Len(s) : s[i] = x

\* list.remove(x): removes the first occurrence
RemoveFirst(s, x) ==
  LET i == CHOOSE j \in 1..Len(s) :
             s[j] = x /\ \A m \in 1..(j - 1) : s[m] # x
  IN  SubSeq(s, 1, i - 1) \o SubSeq(s, i + 1, Len(s))

DoneWords == {<<>>, <<"d">>, <<"d", "o", "n", "e">>}

ClearWords == {<<"c">>, <<"c", "l", "e", "a", "r">>}

\* toggle that empties the selection when it removes a file
toggle_remove_all(file, selected) ==
  IF InSeq(file, selected)
    THEN [raised |-> FALSE, cont |-> TRUE, selected |-> <<>>,
          out |-> <<MsgP("removed", file)>>]
    ELSE [raised |-> FALSE, cont |-> TRUE, selected |-> Append(selected, file),
          out |-> <<MsgP("added", file)>>]

\* toggle without the membership test: always appends
toggle_always_append(file, selected) ==
  [raised |-> FALSE, cont |-> TRUE, selected |-> Append(selected, file),
   out |-> <<MsgP("added", file)>>]

\* FileManager._handle_file_choice, the branch for an index in range
toggle(file, selected) ==
  IF InSeq(file, selected)
    THEN [raised |-> FALSE, cont |-> TRUE,
          selected |-> RemoveFirst(selected, file),
          out |-> <<MsgP("removed", file)>>]
    ELSE [raised |-> FALSE, cont |-> TRUE, selected |-> Append(selected, file),
          out |-> <<MsgP("added", file)>>]

\* FileManager._handle_file_choice; selected is the list after the call;
\* raised is TRUE when int(choice) raises ValueError
handle_file_choice(choice, files_, selected) ==
  IF choice \in DoneWords
    THEN [raised |-> FALSE, cont |-> FALSE, selected |-> selected, out |-> <<>>]
  ELSE IF choice \in QuitWords
    THEN [raised |-> FALSE, cont |-> FALSE, selected |-> <<>>, out |-> <<>>]
  ELSE IF choice \in ClearWords
    THEN [raised |-> FALSE, cont |-> TRUE, selected |-> <<>>,
          out |-> <<Msg("cleared")>>]
  ELSE IF IsDigit(choice) THEN
    IF int_raises(choice)
      THEN [raised |-> TRUE, cont |-> TRUE, selected |-> selected,
            out |-> <<>>]
    ELSE
    LET idx == ToInt(choice) - 1 IN
    IF 0 <= idx /\ idx < Len(files_) THEN
      toggle(files_[idx + 1], selected)
    ELSE [raised |-> FALSE, cont |-> TRUE, selected |-> selected,
          out |-> <<Msg("invalid_choice")>>]
  ELSE [raised |-> FALSE, cont |-> TRUE, selected |-> selected,
        out |-> <<Msg("invalid_input")>>]

\* FileManager._display_file_menu up to its input(): file.stat() on every
\* listed file; TRUE when one of them raises FileNotFoundError
display_file_menu_raises(f, files_) ==
  \E i \in 1..Len(files_) : ~stat_ok(f, files_[i])

(***************************************************************************)
(* Bulk Operations                                                         *)
(***************************************************************************)
INVALID_FILENAME_CHARS == {"<", ">", ":", "\"", "/", "\\", "|", "?", "*"}

\* a validation whose list of reserved characters lacks the "/"
validate_filename_allows_slash(filename) ==
  ~\E i \in 1..Len(filename) :
     filename[i] \in INVALID_FILENAME_CHARS \ {"/"}

\* FileManager._validate_filename
validate_filename(filename) ==
  ~\E i \in 1..Len(filename) : filename[i] \in INVALID_FILENAME_CHARS

\* errno values that Python raises as OSError or one of its subclasses
OSErrors == {"ENOENT", "EPERM", "EISDIR", "ENOTDIR"}

\* rename without the try/except: every failure leaves rename_files
rename_attempt_uncaught(f, file, new_path) ==
  LET r == os_rename(f, file, new_path) IN
  IF r.err = "none"
    THEN [fs |-> r.fs, out |-> <<MsgP("renamed", file)>>, raised |-> FALSE]
    ELSE [fs |-> r.fs, out |-> <<>>, raised |-> TRUE]

\* FileManager.rename_files, the try/except around file.rename(new_path)
rename_attempt(f, file, new_path) ==
  LET r == os_rename(f, file, new_path) IN
  IF r.err = "none"
    THEN [fs |-> r.fs, out |-> <<MsgP("renamed", file)>>, raised |-> FALSE]
    ELSE [fs |-> r.fs, out |-> <<MsgP("err_rename", file)>>,
          raised |-> r.err \notin OSErrors]

\* body of the loop of FileManager.rename_files for one file, after input();
\* raised is TRUE when an exception leaves rename_files
rename_one(f, file, line) ==
  LET new_name == Strip(line) IN
  IF new_name = <<>>
    THEN [fs |-> f, out |-> <<MsgP("skipped", file)>>, raised |-> FALSE]
  ELSE IF ~validate_filename(new_name)
    THEN [fs |-> f, out |-> <<MsgP("invalid_name", file)>>, raised |-> FALSE]
  ELSE
    LET new_path == Join(Parent(file), new_name) IN
    IF exists(f, new_path)
      THEN [fs |-> f, out |-> <<MsgP("already_exists", file)>>,
            raised |-> FALSE]
      ELSE rename_attempt(f, file, new_path)

\* the listing FileManager.delete_files prints before it asks: file.stat()
\* on every selected file, outside any try; TRUE when one of them raises
delete_listing_raises(f, files_) ==
  \E i \in 1..Len(files_) : ~stat_ok(f, files_[i])

RECURSIVE delete_loop(_, _, _, _, _)

\* a try/except inside the for loop: the error is reported, the loop goes on
delete_failed_continue(f, files_, i, deleted_count, o) ==
  delete_loop(f, files_, i + 1, deleted_count,
              Append(o, MsgP("err_delete", files_[i])))

\* FileManager.delete_files, the except clause around the whole for loop:
\* the failure of file number i is reported and the loop is over
delete_failed(f, files_, i, deleted_count, o) ==
  [fs |-> f, deleted_count |-> deleted_count,
   out |-> Append(o, MsgP("err_delete", files_[i]))]

\* the try/for of FileManager.delete_files from file number i on
delete_loop(f, files_, i, deleted_count, o) ==
  IF i > Len(files_)
    THEN [fs |-> f, deleted_count |-> deleted_count, out |-> o]
    ELSE LET r == os_unlink(f, files_[i]) IN
         IF r.err = "none"
           THEN delete_loop(r.fs, files_, i + 1, deleted_count + 1,
                            Append(o, MsgP("deleted", files_[i])))
           ELSE delete_failed(f, files_, i, deleted_count, o)

\* a confirmation that proceeds unless the answer is "n" or "no"
is_confirmed_default_yes(confirm) == confirm \notin {<<"n">>, <<"n", "o">>}

\* FileManager.delete_files, the test of the confirmation
is_confirmed(confirm) == confirm \in {<<"y">>, <<"y", "e", "s">>}

\* a deletion that takes every file of the directory, selected or not
delete_confirmed_whole_directory(f, files_, line) ==
  LET confirm == Lower(Strip(line)) IN
  IF ~is_confirmed(confirm)
    THEN [fs |-> f, out |-> <<Msg("cancelled")>>]
    ELSE LET d == delete_loop(f, get_files(f, Parent(files_[1])), 1, 0, <<>>)
         IN  [fs |-> d.fs,
              out |-> Append(d.out,
                             MsgK("count", d.deleted_count, Len(files_)))]

\* FileManager.delete_files from the confirmation input on
delete_confirmed(f, files_, line) ==
  LET confirm == Lower(Strip(line)) IN
  IF ~is_confirmed(confirm)
    THEN [fs |-> f, out |-> <<Msg("cancelled")>>]
    ELSE LET d == delete_loop(f, files_, 1, 0, <<>>) IN
         [fs |-> d.fs,
          out |-> Append(d.out, MsgK("count", d.deleted_count, Len(files_)))]

\* FileManager._show_file_info: file.stat() on every selected file
show_file_info_raises(f, files_) ==
  \E i \in 1..Len(files_) : ~stat_ok(f, files_[i])

MenuQuitWords == {<<"4">>, <<"q">>, <<"q", "u", "i", "t">>, <<>>}

\* no break after delete_files: the menu is shown again
after_delete_no_break == "menu"

\* where the session continues once delete_files has returned to
\* _run_operations_menu: the break leaves the loop and run() returns
after_delete == "done"

(***************************************************************************)
(* Size formatter.  A byte count is kept as its digits in base              *)
(* BYTES_PER_KB, most significant first and without leading zeros (<<>> is  *)
(* 0), so that counts of 1024^4 and more can be written down; the value the *)
(* loop holds has an integer part and the digits after the point.           *)
(***************************************************************************)
BYTES_PER_KB == 1024

\* the list the for loop of format_file_size runs over
UNITS == <<"B", "KB", "MB", "GB">>

SizeDigits == {0, 1, BYTES_PER_KB - 1}

Sizes ==
  UNION { { d \in [1..k -> SizeDigits] : k > 0 => d[1] # 0 } :
          k \in 0..MaxSizeDigits }

\* a < b for two byte counts
RECURSIVE SizeLess(_, _)
SizeLess(a, b) ==
  IF Len(a) # Len(b) THEN Len(a) < Len(b)
  ELSE IF a = <<>> THEN FALSE
  ELSE IF Head(a) # Head(b) THEN Head(a) < Head(b)
  ELSE SizeLess(Tail(a), Tail(b))

\* BYTES_PER_KB ^ k as a byte count
Pow(k) == [i \in 1..(k + 1) |-> IF i = 1 THEN 1 ELSE 0]

\* size_bytes <= BYTES_PER_KB
below_kb_inclusive(v) ==
  SizeLess(v.int, Pow(1)) \/ (v.int = Pow(1) /\ v.frac = <<>>)

\* size_bytes < BYTES_PER_KB: the part after the point is below 1, so the
\* integer part decides
below_kb(v) == SizeLess(v.int, Pow(1))

\* size_bytes /= BYTES_PER_KB: the last digit of the integer part moves
\* behind the point (a division by a power of two, exact for file sizes)
div_kb(v) ==
  IF v.int = <<>>
    THEN [int |-> <<>>, frac |-> IF v.frac = <<>> THEN <<>> ELSE <<0>> \o v.frac]
    ELSE [int |-> SubSeq(v.int, 1, Len(v.int) - 1),
          frac |-> IF v.frac = <<>> /\ v.int[Len(v.int)] = 0
                     THEN <<>> ELSE <<v.int[Len(v.int)]>> \o v.frac]

(***************************************************************************)
(* KeyboardInterrupt                                                       *)
(***************************************************************************)
\* rename_files catching the interrupt like a failed rename: the loop goes on
keyboard_interrupt_skipped_in_rename(p) ==
  IF p = "rename"
    THEN [pc |-> "rename", exit |-> "running", out |-> <<Msg("rename_failed")>>]
    ELSE [pc |-> "done", exit |-> "interrupt", out |-> <<Msg("goodbye")>>]

\* input() raises KeyboardInterrupt at prompt p: no handler below run()
\* catches it, run() prints the farewell and returns
keyboard_interrupt(p) ==
  [pc |-> "done", exit |-> "interrupt", out |-> <<Msg("goodbye")>>]

(***************************************************************************)
(* Startup                                                                 *)
(***************************************************************************)
\* Path.cwd()
Cwd == DirS

\* Path(start_input).resolve(): absolute, symbolic links followed
resolve(f, s) ==
  LET p == IF s # <<>> /\ Head(s) = "/"
             THEN SplitPath(s, <<>>, <<>>)
             ELSE Cwd \o SplitPath(s, <<>>, <<>>)
  IN  IF KindAt(f, p) = "symdir" THEN DirS ELSE p

\* without the "if not start_path.exists()" check
get_starting_directory_unchecked(f, line) ==
  LET start_input == IF Strip(line) = <<>> THEN <<".">> ELSE Strip(line)
  IN  Some(resolve(f, start_input))

\* FileManager._get_starting_directory after input()
get_starting_directory(f, line) ==
  LET start_input == IF Strip(line) = <<>> THEN <<".">> ELSE Strip(line)
      start_path == resolve(f, start_input)
  IN  IF ~exists(f, start_path) THEN None ELSE Some(start_path)

(***************************************************************************)
(* Input lines tried at each prompt                                        *)
(***************************************************************************)
StartLines ==
  { <<>>, <<"/">>, <<" ", "/", "s">>, <<"/", "t">>, <<"/", "z">>,
    <<"/", "a">> }

NavLines ==
  { <<>>, <<"y">>, <<" ", "Y", "E", "S">>, <<"q">>, <<"Q", "U", "I", "T">>,
    <<".", ".">>, <<"1">>, <<"0">>, <<"2">>, <<"z">>, <<"^2">> }

SelLines ==
  { <<>>, <<"d">>, <<"D", "O", "N", "E">>, <<"q">>, <<"c">>,
    <<"1">>, <<" ", "2", " ">>, <<"3">>, <<"0", "1">>, <<"0">>, <<"4">>,
    <<"z">>, <<"^2">> }

MenuLines ==
  { <<"1">>, <<"2">>, <<" ", "3">>, <<"4">>, <<"q">>, <<>>, <<"Q">>,
    <<"z">> }

RenameLines ==
  { <<>>, <<" ">>, <<" ", "d", " ">>, <<"a">>, <<"b">>, <<"/", "d">>, <<"*">>,
    <<".", ".">> }

ConfirmLines ==
  { <<"y">>, <<"Y">>, <<" ", "Y", "E", "S", " ">>, <<>>, <<"n">>,
    <<"y", "y">>, <<" ">> }

(***************************************************************************)
(* State                                                                   *)
(***************************************************************************)
VARIABLES
  pc,              \* the input() call the program waits at, or "done"
  fs,              \* the filesystem: Paths -> Kinds
  current_path,    \* choose_directory: current_path, then run: chosen_dir
  directories,     \* choose_directory: directories (as last listed)
  files,           \* choose_files: files (listed once at entry)
  selected_files,  \* choose_files: selected_files, then run: selected_files
  ri,              \* rename_files: position of the for loop (1-based)
  out,             \* what the last step printed
  exit,            \* how the session ended
  deleteChosen,    \* history: delete_files has been called
  vanished,        \* history: paths removed by other processes, and when
  interrupted,     \* history: the prompt a KeyboardInterrupt came at
  fpc,             \* format_file_size: "idle", in the "loop", or returned
  n_arg,           \* format_file_size: the byte count it was called with
  size_bytes,      \* format_file_size: size_bytes
  unit_i,          \* format_file_size: position of the for loop in UNITS
  ret_unit,        \* format_file_size: the unit of the string returned
  divisions        \* history: how often size_bytes was divided

fmtvars == <<fpc, n_arg, size_bytes, unit_i, ret_unit, divisions>>

mainvars == <<pc, fs, current_path, directories, files, selected_files, ri,
              out, exit, deleteChosen, vanished, interrupted>>

vars == <<pc, fs, current_path, directories, files, selected_files, ri, out,
          exit, deleteChosen, vanished, interrupted, fpc, n_arg, size_bytes,
          unit_i, ret_unit, divisions>>

Prompts == {"start", "nav", "nofiles", "sel", "menu", "rename", "confirm"}

InitFS(kc, kd) ==
  [p \in Paths |->
     CASE p = Root -> "dir"
       [] p = <<NameS>> -> "dir"
       [] p = <<NameT>> -> "symdir"
       [] p = <<NameA>> -> "file"
       [] p = <<NameB>> -> "symfile"
       [] p = <<NameS, NameA>> -> "file"
       [] p = <<NameS, NameB>> -> "file"
       [] p = <<NameS, NameC>> -> kc
       [] p = <<NameS, NameD>> -> kd
       [] OTHER -> "none"]

Init ==
  /\ pc = "start"
  /\ \E kc \in {"file", "immutable"} :
       \E kd \in {"none", "dangling", "dir"} :
         fs = InitFS(kc, kd)
  /\ current_path = Root
  /\ directories = <<>>
  /\ files = <<>>
  /\ selected_files = <<>>
  /\ ri = 0
  /\ out = <<>>
  /\ exit = "running"
  /\ deleteChosen = FALSE
  /\ vanished = {}
  /\ interrupted = "none"
  /\ fpc = "idle"
  /\ n_arg = <<>>
  /\ size_bytes = [int |-> <<>>, frac |-> <<>>]
  /\ unit_i = 1
  /\ ret_unit = "none"
  /\ divisions = 0

\* the exit status of the process: run() returning, its two handlers and the
\* handler of main() all end with status 0; an exception nothing catches
\* ends the interpreter with a traceback and status 1
ExitStatus(how) == IF how = "crash" THEN 1 ELSE 0

\* run() returns, an exception reaches one of its handlers, or an exception
\* nothing catches ends the process
Finish(how, o) ==
  /\ pc' = "done"
  /\ exit' = how
  /\ out' = o

(***************************************************************************)
(* Actions: one per input() call of the program                            *)
(***************************************************************************)
\* run(): "Enter starting directory", then choose_directory up to its prompt
StartInput(line) ==
  /\ pc = "start"
  /\ UNCHANGED <<fmtvars, interrupted>>
  /\ LET sp == get_starting_directory(fs, line) IN
     IF sp.isNone
       THEN /\ Finish("normal", <<Msg("does_not_exist")>>)
            /\ UNCHANGED <<current_path, directories>>
       ELSE LET ds == get_directories(fs, sp.path) IN
            /\ current_path' = sp.path
            /\ directories' = ds.list
            /\ IF ds.raised
                 THEN Finish("syserror", <<Msg("system_error")>>)
                 ELSE /\ pc' = "nav"
                      /\ out' = <<>>
                      /\ exit' = exit
  /\ UNCHANGED <<fs, files, selected_files, ri, deleteChosen, vanished>>

\* choose_directory: one line at the navigator prompt; on Accept, run() goes
\* on into choose_files up to its first prompt
NavInput(line) ==
  /\ pc = "nav"
  /\ UNCHANGED <<fmtvars, interrupted>>
  /\ LET choice == Lower(Strip(line))
         st == choose_directory_step(choice, current_path, directories)
     IN
     /\ current_path' = st.current_path
     /\ IF st.raised
          THEN /\ Finish("crash", <<Msg("traceback")>>)
               /\ UNCHANGED <<directories, files>>
        ELSE IF st.ret /\ st.value.isNone
          THEN /\ Finish("normal", st.out \o <<Msg("no_directory")>>)
               /\ UNCHANGED <<directories, files>>
        ELSE IF st.ret
          THEN LET fl == get_files(fs, st.value.path) IN
               /\ files' = fl
               /\ UNCHANGED directories
               /\ IF fl = <<>>
                    THEN /\ pc' = "nofiles"
                         /\ out' = <<Msg("no_files_found")>>
                         /\ exit' = exit
                  ELSE IF display_file_menu_raises(fs, fl)
                    THEN Finish("syserror", <<Msg("system_error")>>)
                  ELSE /\ pc' = "sel"
                       /\ out' = st.out
                       /\ exit' = exit
        ELSE LET ds == get_directories(fs, st.current_path) IN
             /\ directories' = ds.list
             /\ UNCHANGED files
             /\ IF ds.raised
                  THEN Finish("syserror", <<Msg("system_error")>>)
                  ELSE /\ pc' = "nav"
                       /\ out' = st.out
                       /\ exit' = exit
  /\ UNCHANGED <<fs, selected_files, ri, deleteChosen, vanished>>

\* choose_files: "Press Enter to continue..." for a directory without files
NoFilesInput ==
  /\ pc = "nofiles"
  /\ UNCHANGED <<fmtvars, interrupted>>
  /\ Finish("normal", <<Msg("no_files_selected")>>)
  /\ UNCHANGED <<fs, current_path, directories, files, selected_files, ri,
                 deleteChosen, vanished>>

\* choose_files: one line at the selector prompt; when the loop ends, run()
\* goes on to the operations menu
SelInput(line) ==
  /\ pc = "sel"
  /\ UNCHANGED <<fmtvars, interrupted>>
  /\ LET choice == Lower(Strip(line))
         h == handle_file_choice(choice, files, selected_files)
     IN
     /\ selected_files' = h.selected
     /\ IF h.raised
          THEN Finish("crash", <<Msg("traceback")>>)
        ELSE IF h.cont
          THEN IF display_file_menu_raises(fs, files)
                 THEN Finish("syserror", h.out \o <<Msg("system_error")>>)
                 ELSE /\ pc' = "sel"
                      /\ out' = h.out
                      /\ exit' = exit
        ELSE IF h.selected = <<>>
          THEN Finish("normal", <<Msg("no_files_selected")>>)
        ELSE /\ pc' = "menu"
             /\ out' = <<Msg("menu")>>
             /\ exit' = exit
  /\ UNCHANGED <<fs, current_path, directories, files, ri, deleteChosen,
                 vanished>>

\* _run_operations_menu: one line at "Choose operation [1-4]"
MenuInput(line) ==
  /\ pc = "menu"
  /\ UNCHANGED <<fmtvars, interrupted>>
  /\ LET choice == Strip(line) IN
     IF choice = <<"1">> THEN
       /\ pc' = "rename"
       /\ ri' = 1
       /\ out' = <<>>
       /\ UNCHANGED <<exit, deleteChosen>>
     ELSE IF choice = <<"2">> THEN
       /\ deleteChosen' = TRUE
       /\ ri' = ri
       /\ IF delete_listing_raises(fs, selected_files)
            THEN Finish("syserror", <<Msg("system_error")>>)
            ELSE /\ pc' = "confirm"
                 /\ out' = <<>>
                 /\ exit' = exit
     ELSE IF choice = <<"3">> THEN
       /\ UNCHANGED <<ri, deleteChosen>>
       /\ IF show_file_info_raises(fs, selected_files)
            THEN Finish("syserror", <<Msg("system_error")>>)
            ELSE /\ pc' = "menu"
                 /\ out' = <<Msg("total_size"), Msg("menu")>>
                 /\ exit' = exit
     ELSE IF choice \in MenuQuitWords THEN
       /\ Finish("normal", <<>>)
       /\ UNCHANGED <<ri, deleteChosen>>
     ELSE
       /\ pc' = "menu"
       /\ out' = <<Msg("invalid_choice"), Msg("menu")>>
       /\ UNCHANGED <<exit, ri, deleteChosen>>
  /\ UNCHANGED <<fs, current_path, directories, files, selected_files,
                 vanished>>

\* rename_files: one line at "New name (Enter to skip)" for file number ri
RenameInput(line) ==
  /\ pc = "rename"
  /\ UNCHANGED <<fmtvars, interrupted>>
  /\ LET r == rename_one(fs, selected_files[ri], line) IN
     /\ fs' = r.fs
     /\ IF r.raised
          THEN /\ Finish("syserror", r.out \o <<Msg("system_error")>>)
               /\ ri' = ri
        ELSE IF ri < Len(selected_files)
          THEN /\ pc' = "rename"
               /\ ri' = ri + 1
               /\ out' = r.out
               /\ exit' = exit
        ELSE /\ pc' = "menu"
             /\ ri' = 0
             /\ out' = r.out \o <<Msg("menu")>>
             /\ exit' = exit
  /\ UNCHANGED <<current_path, directories, files, selected_files,
                 deleteChosen, vanished>>

\* delete_files: the line at "Delete ALL n files? [y/N]", the deletion, and
\* the return through _run_operations_menu and run()
ConfirmInput(line) ==
  /\ pc = "confirm"
  /\ UNCHANGED <<fmtvars, interrupted>>
  /\ LET d == delete_confirmed(fs, selected_files, line) IN
     /\ fs' = d.fs
     /\ pc' = after_delete
     /\ out' = d.out
     /\ exit' = IF after_delete = "done" THEN "normal" ELSE exit
  /\ UNCHANGED <<current_path, directories, files, selected_files, ri,
                 deleteChosen, vanished>>

\* KeyboardInterrupt raised by input(): caught in run(), farewell, status 0
Interrupt ==
  /\ pc \in Prompts
  /\ UNCHANGED fmtvars
  /\ LET k == keyboard_interrupt(pc) IN
     /\ pc' = k.pc
     /\ exit' = k.exit
     /\ out' = k.out
  /\ interrupted' = pc
  /\ UNCHANGED <<fs, current_path, directories, files, selected_files, ri,
                 deleteChosen, vanished>>

\* another process removes a listed file while the program waits at a prompt
ExternalRemove(p) ==
  /\ pc \in {"sel", "menu", "rename", "confirm"}
  /\ UNCHANGED <<fmtvars, interrupted>>
  /\ Cardinality(vanished) < MaxExternal
  /\ InSeq(p, files)
  /\ fs[p] # "none"
  /\ fs' = [fs EXCEPT ![p] = "none"]
  /\ vanished' = vanished \cup {[path |-> p, at |-> pc]}
  /\ UNCHANGED <<pc, current_path, directories, files, selected_files, ri,
                 out, exit, deleteChosen>>

Next ==
  \/ \E line \in StartLines : StartInput(line)
  \/ \E line \in NavLines : NavInput(line)
  \/ NoFilesInput
  \/ \E line \in SelLines : SelInput(line)
  \/ \E line \in MenuLines : MenuInput(line)
  \/ \E line \in RenameLines : RenameInput(line)
  \/ \E line \in ConfirmLines : ConfirmInput(line)
  \/ Interrupt
  \/ \E p \in Paths : ExternalRemove(p)

Spec == Init /\ [][Next]_vars

\* the state before format_file_size(n) runs its loop; the session is idle
InitFmt ==
  /\ pc = "start"
  /\ fs = InitFS("file", "none")
  /\ current_path = Root
  /\ directories = <<>>
  /\ files = <<>>
  /\ selected_files = <<>>
  /\ ri = 0
  /\ out = <<>>
  /\ exit = "running"
  /\ deleteChosen = FALSE
  /\ vanished = {}
  /\ interrupted = "none"
  /\ fpc = "loop"
  /\ n_arg \in Sizes
  /\ size_bytes = [int |-> n_arg, frac |-> <<>>]
  /\ unit_i = 1
  /\ ret_unit = "none"
  /\ divisions = 0

\* format_file_size: one pass of the for loop over UNITS
FormatIter ==
  /\ fpc = "loop"
  /\ unit_i <= Len(UNITS)
  /\ IF below_kb(size_bytes)
       THEN /\ fpc' = "ret"
            /\ ret_unit' = UNITS[unit_i]
            /\ UNCHANGED <<size_bytes, unit_i, divisions>>
       ELSE /\ size_bytes' = div_kb(size_bytes)
            /\ unit_i' = unit_i + 1
            /\ divisions' = divisions + 1
            /\ UNCHANGED <<fpc, ret_unit>>
  /\ UNCHANGED <<n_arg, mainvars>>

\* format_file_size: the loop is exhausted, the return after it
FormatFallThrough ==
  /\ fpc = "loop"
  /\ unit_i > Len(UNITS)
  /\ fpc' = "ret"
  /\ ret_unit' = "TB"
  /\ UNCHANGED <<n_arg, size_bytes, unit_i, divisions, mainvars>>

NextFmt ==
  \/ FormatIter
  \/ FormatFallThrough

SpecFmt == InitFmt /\ [][NextFmt]_vars

TypeOK ==
  /\ pc \in Prompts \cup {"done"}
  /\ fs \in [Paths -> Kinds]
  /\ current_path \in Paths
  /\ exit \in {"running", "normal", "syserror", "interrupt", "crash"}
  /\ (pc = "done") = (exit # "running")
  /\ ri \in 0..Len(selected_files)
  /\ (pc = "rename") => ri >= 1

(***************************************************************************)
(* Properties                                                              *)
(***************************************************************************)
Elems(q) == {q[i] : i \in 1..Len(q)}

Affirmative == {<<"y">>, <<"y", "e", "s">>}

\* the step just taken read an affirmative answer at the delete confirmation
ConfirmedStep ==
  \E line \in ConfirmLines :
    Lower(Strip(line)) \in Affirmative /\ ConfirmInput(line)

\* the step just taken chose Delete in the operations menu
DeleteChosenStep == pc = "menu" /\ ~deleteChosen /\ deleteChosen'

\* three selected files, the 2nd of which another process removed after the
\* selection was made, the 1st and 3rd being ordinary files
SecondOfThreeVanished ==
  /\ Len(selected_files) = 3
  /\ \E a \in {"menu", "rename", "confirm"} :
       vanished = {[path |-> selected_files[2], at |-> a]}
  /\ fs[selected_files[1]] = "file"
  /\ fs[selected_files[2]] = "none"
  /\ fs[selected_files[3]] = "file"

\* C1: with a selection of 3 files whose 2nd file was removed by another
\* process after selection and before the confirmation is given, choosing
\* Delete leads to the confirmation, and confirming with 'y' deletes file 1,
\* reports the failure on file 2, leaves file 3 in place and reports 1/3.
C1_DeleteWithVanishedFile ==
  [][ /\ (DeleteChosenStep /\ SecondOfThreeVanished) => pc' = "confirm"
      /\ (pc = "confirm" /\ SecondOfThreeVanished /\ ConfirmedStep) =>
            /\ fs'[selected_files[1]] = "none"
            /\ InSeq(MsgP("err_delete", selected_files[2]), out')
            /\ fs'[selected_files[3]] = "file"
            /\ InSeq(MsgK("count", 1, 3), out') ]_vars

\* C2: a confirmation input other than 'y'/'yes' (trimmed, any case) cancels
\* the delete: that step changes nothing in the filesystem and reports the
\* cancellation, and choosing Delete itself changes nothing either.
C2_CancelHasNoSideEffects ==
  [][ /\ \A line \in ConfirmLines :
           (Lower(Strip(line)) \notin Affirmative /\ ConfirmInput(line)) =>
             (fs' = fs /\ out' = <<Msg("cancelled")>>)
      /\ DeleteChosenStep => fs' = fs ]_vars

C2_Witness ==
  /\ pc = "done"
  /\ deleteChosen
  /\ out = <<Msg("cancelled")>>
  /\ \A i \in 1..Len(selected_files) : fs[selected_files[i]] = "file"

\* C3: when a rename is asked for and an entry of any kind already is at
\* parent/new_name, the rename is not performed: the filesystem is unchanged
\* and the collision is reported.
C3_RenameNeverOverwrites ==
  [][ \A line \in RenameLines :
        ( /\ pc = "rename"
          /\ Strip(line) # <<>>
          /\ validate_filename(Strip(line))
          /\ KindAt(fs, Join(Parent(selected_files[ri]), Strip(line))) # "none"
          /\ RenameInput(line) ) =>
            /\ fs' = fs
            /\ out'[1] = MsgP("already_exists", selected_files[ri]) ]_vars

\* the rename of file number ri to the name on this line reaches os.rename
\* and fails there
RenameFails(line) ==
  /\ Strip(line) # <<>>
  /\ validate_filename(Strip(line))
  /\ ~exists(fs, Join(Parent(selected_files[ri]), Strip(line)))
  /\ os_rename(fs, selected_files[ri],
               Join(Parent(selected_files[ri]), Strip(line))).err # "none"

\* C4: a rename batch starts at the first selected file, and every line read
\* at the new-name prompt, whatever its outcome, moves on to the next file
\* in selection order or, after the last file, back to the menu; an
\* operating-system failure is reported and the session goes on.
C4_RenameSkipAndContinue ==
  [][ /\ (pc = "menu" /\ pc' = "rename") => ri' = 1
      /\ \A line \in RenameLines :
           (pc = "rename" /\ RenameInput(line)) =>
             /\ exit' = "running"
             /\ selected_files' = selected_files
             /\ IF ri < Len(selected_files)
                  THEN pc' = "rename" /\ ri' = ri + 1
                  ELSE pc' = "menu"
             /\ RenameFails(line) =>
                  out'[1] = MsgP("err_rename", selected_files[ri]) ]_vars

C4_Witness ==
  /\ pc = "rename"
  /\ ri = 3
  /\ out = <<MsgP("err_rename", selected_files[2])>>
  /\ exit = "running"

\* C5: after an affirmative confirmation the files unlinked are exactly the
\* first k selected files, for the k reported in 'k/total'; when k < total
\* the failure of file k+1 is reported and nothing after it is touched.
C5_DeleteStopsOnFirstError ==
  [][ (pc = "confirm" /\ ConfirmedStep) =>
        LET n == Len(selected_files)
            k == out'[Len(out')].k
        IN  /\ out'[Len(out')] = MsgK("count", k, n)
            /\ k \in 0..n
            /\ \A i \in 1..k :
                 /\ fs[selected_files[i]] # "none"
                 /\ fs'[selected_files[i]] = "none"
                 /\ out'[i] = MsgP("deleted", selected_files[i])
            /\ {p \in Paths : fs'[p] # fs[p]} =
                 {selected_files[i] : i \in 1..k}
            /\ Cardinality({p \in Paths : fs'[p] # fs[p]}) = k
            /\ IF k < n
                 THEN /\ Len(out') = k + 2
                      /\ out'[k + 1] = MsgP("err_delete", selected_files[k + 1])
                 ELSE Len(out') = n + 1 ]_vars

C5_Witness ==
  /\ pc = "done"
  /\ Len(selected_files) = 3
  /\ out = << MsgP("deleted", selected_files[1]),
              MsgP("err_delete", selected_files[2]),
              MsgK("count", 1, 3) >>
  /\ fs[selected_files[2]] = "immutable"
  /\ fs[selected_files[3]] = "file"

\* the step just taken asked for the size report
SizeReportStep ==
  \E line \in MenuLines : Strip(line) = <<"3">> /\ MenuInput(line)

\* the step just taken quit the operations menu
MenuQuitStep ==
  \E line \in MenuLines : Strip(line) \in MenuQuitWords /\ MenuInput(line)

\* C6: with no interference from other processes, the menu loop is left only
\* by a quit input or once Delete has been chosen (or by an interrupt); after
\* a size report the menu is presented again, and the report changes neither
\* the filesystem nor the selection.
C6_MenuLoopRepeats ==
  [][ (pc = "menu" /\ vanished = {}) =>
        /\ (pc' = "done" /\ exit' # "interrupt") =>
              (MenuQuitStep \/ deleteChosen')
        /\ SizeReportStep =>
              /\ pc' = "menu"
              /\ fs' = fs
              /\ selected_files' = selected_files ]_vars

\* C7: once Delete has been chosen the session is at the confirmation or
\* over, and the answer to the confirmation, whatever it is, ends the
\* session: no menu, rename, delete or size report follows.
C7_DeleteIsTerminal ==
  [][ /\ deleteChosen' => pc' \in {"confirm", "done"}
      /\ \A line \in ConfirmLines :
           (pc = "confirm" /\ ConfirmInput(line)) =>
             (pc' = "done" /\ exit' = "normal") ]_vars

C7_Witness ==
  /\ pc = "done"
  /\ deleteChosen
  /\ Len(selected_files) = 2
  /\ out = << MsgP("deleted", selected_files[1]),
              MsgP("deleted", selected_files[2]),
              MsgK("count", 2, 2) >>

\* the line that selects index i (1..9)
IndexLine(i) == <<CHOOSE d \in Digits : DigitVal(d) = i>>

\* C8: in the File Selector, for every valid index i, Toggle(i) applied
\* twice in a row gives a selection with the same members as before, for
\* file i and for every other file, and the loop continues.
C8_ToggleTwiceRestoresMembership ==
  pc = "sel" =>
    \A i \in 1..Len(files) :
      LET h1 == handle_file_choice(IndexLine(i), files, selected_files)
          h2 == handle_file_choice(IndexLine(i), files, h1.selected)
      IN  /\ h1.cont /\ h2.cont
          /\ InSeq(files[i], h1.selected) # InSeq(files[i], selected_files)
          /\ Elems(h2.selected) = Elems(selected_files)

C8_Witness ==
  /\ pc = "sel"
  /\ Len(selected_files) = 2
  /\ \E i \in 1..Len(files) :
       /\ out = <<MsgP("removed", files[i])>>
       /\ ~InSeq(files[i], selected_files)

\* C9: the selection never holds a path twice, holds only paths of the file
\* list taken at selector entry, and is never longer than that list.
C9_SelectionInvariant ==
  /\ \A i, j \in 1..Len(selected_files) :
       selected_files[i] = selected_files[j] => i = j
  /\ Elems(selected_files) \subseteq Elems(files)
  /\ Len(selected_files) <= Len(files)

C9_Witness ==
  /\ pc = "sel"
  /\ Len(files) = 3
  /\ Len(selected_files) = 3
  /\ selected_files # files

\* the step just taken read '..' at the navigator prompt
AscendStep ==
  \E line \in NavLines : Lower(Strip(line)) = DotDot /\ NavInput(line)

\* C10: Ascend sets currentPath to its parent and the loop continues; at the
\* filesystem root it warns, leaves currentPath unchanged and the loop
\* continues; no navigator step leaves the directory tree.
C10_NavigatorStaysBelowRoot ==
  [][ /\ (pc = "nav" /\ AscendStep) =>
           /\ pc' = "nav"
           /\ IF current_path = <<>>
                THEN current_path' = <<>> /\ out' = <<Msg("at_root")>>
                ELSE /\ current_path' =
                          SubSeq(current_path, 1, Len(current_path) - 1)
                     /\ out' = <<>>
      /\ pc = "nav" => (current_path' \in Paths /\ fs'[current_path'] = "dir")
    ]_vars

C10_Witness ==
  /\ pc = "nav"
  /\ current_path = Root
  /\ out = <<Msg("at_root")>>

\* C11: at the navigator, choose_directory returns "no selection" exactly on
\* 'q'/'quit' and returns the current path (unchanged by that input), after
\* which the File Selector is entered, exactly on 'y'/'yes'/empty; every
\* other input (ascend, descend, invalid) leaves the navigator prompting.
C11_AcceptAndQuitNeverConfused ==
  [][ \A line \in NavLines :
        (pc = "nav" /\ NavInput(line)) =>
          LET choice == Lower(Strip(line)) IN
          /\ (pc' = "done" /\ InSeq(Msg("no_directory"), out')) <=>
                choice \in {<<"q">>, <<"q", "u", "i", "t">>}
          /\ (pc' \in {"sel", "nofiles"} /\ current_path' = current_path) <=>
                choice \in {<<>>, <<"y">>, <<"y", "e", "s">>}
          /\ choice \notin {<<"q">>, <<"q", "u", "i", "t">>, <<>>, <<"y">>,
                            <<"y", "e", "s">>} => pc' = "nav" ]_vars

\* C12: at the selector, Done ('d', 'done', empty) returns the selection
\* exactly as it stands (to the operations menu, or ending the session when
\* it is empty); Quit ('q', 'quit') returns the empty selection whatever was
\* selected; Clear empties the selection and the selector prompts again.
C12_SelectorResult ==
  [][ \A line \in SelLines :
        (pc = "sel" /\ SelInput(line)) =>
          LET choice == Lower(Strip(line)) IN
          /\ choice \in {<<>>, <<"d">>, <<"d", "o", "n", "e">>} =>
                /\ selected_files' = selected_files
                /\ IF selected_files = <<>>
                     THEN pc' = "done" /\ exit' = "normal"
                     ELSE pc' = "menu"
          /\ choice \in {<<"q">>, <<"q", "u", "i", "t">>} =>
                /\ selected_files' = <<>>
                /\ pc' = "done" /\ exit' = "normal"
          /\ choice \in {<<"c">>, <<"c", "l", "e", "a", "r">>} =>
                /\ selected_files' = <<>>
                /\ pc' = "sel" ]_vars

\* the line is a decimal number between 1 and n
InRangeIndex(choice, n) ==
  /\ choice # <<>>
  /\ \A i \in 1..Len(choice) : choice[i] \in Digits
  /\ ToInt(choice) \in 1..n

InvalidReports == {<<Msg("invalid_choice")>>, <<Msg("invalid_input")>>}

\* C13: in the navigator and in the selector, a line that is neither a
\* keyword of that prompt nor an index in range is rejected with an error
\* message, leaves current_path (resp. the selection) unchanged, and the
\* same prompt is shown again.
C13_InvalidInputIsRecoverable ==
  [][ /\ \A line \in NavLines :
           LET choice == Lower(Strip(line)) IN
           ( /\ pc = "nav"
             /\ choice \notin {<<>>, <<"y">>, <<"y", "e", "s">>, <<"q">>,
                               <<"q", "u", "i", "t">>, <<".", ".">>}
             /\ ~InRangeIndex(choice, Len(directories))
             /\ NavInput(line) ) =>
               /\ pc' = "nav"
               /\ current_path' = current_path
               /\ out' \in InvalidReports
      /\ \A line \in SelLines :
           LET choice == Lower(Strip(line)) IN
           ( /\ pc = "sel"
             /\ choice \notin {<<>>, <<"d">>, <<"d", "o", "n", "e">>, <<"q">>,
                               <<"q", "u", "i", "t">>, <<"c">>,
                               <<"c", "l", "e", "a", "r">>}
             /\ ~InRangeIndex(choice, Len(files))
             /\ SelInput(line) ) =>
               /\ pc' = "sel"
               /\ selected_files' = selected_files
               /\ out' \in InvalidReports ]_vars

\* p is an immediate child of directory d
ChildOf(p, d) == Len(p) = Len(d) + 1 /\ SubSeq(p, 1, Len(d)) = d

\* C14: every selected path is an immediate child of the directory accepted
\* in the navigator, and every path whose entry a step of the program changes
\* (renamed away, renamed to, unlinked) is an immediate child of that same
\* directory.
C14_SingleDirectory ==
  [][ /\ \A i \in 1..Len(selected_files') :
           ChildOf(selected_files'[i], current_path')
      /\ vanished' = vanished =>
           \A p \in Paths : fs'[p] # fs[p] => ChildOf(p, current_path) ]_vars

C14_Witness ==
  /\ pc = "menu"
  /\ current_path = DirS
  /\ Len(selected_files) = 2
  /\ out[1] = MsgP("renamed", selected_files[2])
  /\ fs[selected_files[2]] = "none"
  /\ fs[<<NameS, NameD>>] = "file"

\* the unit the claim gives for a byte count n
UnitFor(n) ==
  IF SizeLess(n, Pow(1)) THEN "B"
  ELSE IF SizeLess(n, Pow(2)) THEN "KB"
  ELSE IF SizeLess(n, Pow(3)) THEN "MB"
  ELSE IF SizeLess(n, Pow(4)) THEN "GB"
  ELSE "TB"

\* C15: for every byte count n, format_file_size(n) uses B when n < 1024, KB
\* when 1024 <= n < 1024^2, MB when 1024^2 <= n < 1024^3, GB when
\* 1024^3 <= n < 1024^4 and TB for every n >= 1024^4; 1023 is rendered in B and
\* 1024 in KB; the loop divides by 1024 at most four times.
C15_UnitSelection ==
  /\ divisions <= 4
  /\ fpc = "ret" =>
       /\ ret_unit = UnitFor(n_arg)
       /\ n_arg = <<BYTES_PER_KB - 1>> => ret_unit = "B"
       /\ n_arg = <<1, 0>> => ret_unit = "KB"
       /\ ret_unit \in {"B", "KB", "MB", "GB", "TB"}

\* format_file_size(1024^4) has returned, after the fourth division
C15_Witness ==
  /\ fpc = "ret"
  /\ n_arg = Pow(4)
  /\ ret_unit = "TB"
  /\ divisions = 4

\* the immediate children of directory d whose own kind is in kinds
ChildrenOfKind(f, d, kinds) == {p \in Paths : ChildOf(p, d) /\ f[p] \in kinds}

\* q holds exactly the members of S, in strictly ascending name order
ExactlyAscending(q, S) ==
  /\ Elems(q) = S
  /\ \A i \in 1..Len(q) : \A j \in 1..Len(q) :
       i < j => StrLess(Name(q[i]), Name(q[j]))

\* C16: whenever a listing is taken, the file list holds exactly the immediate
\* children that are regular files and not symlinks, the directory list
\* exactly those that are directories and not symlinks, each in ascending name
\* order; a directory with one real file and one symlink-to-file yields a file
\* list of length 1; no symlink is ever in the selection.
C16_ListingExcludesSymlinks ==
  [][ /\ (pc \in {"start", "nav"} /\ pc' = "nav") =>
           ExactlyAscending(directories',
                            ChildrenOfKind(fs, current_path', {"dir"}))
      /\ (pc = "nav" /\ pc' \in {"sel", "nofiles"}) =>
           /\ ExactlyAscending(files',
                ChildrenOfKind(fs, current_path', {"file", "immutable"}))
           /\ ( /\ Cardinality(ChildrenOfKind(fs, current_path',
                                              {"file", "immutable"})) = 1
                /\ Cardinality(ChildrenOfKind(fs, current_path',
                                              {"symfile"})) = 1 )
                => Len(files') = 1
      /\ \A i \in 1..Len(selected_files') :
           ~is_symlink(fs', selected_files'[i]) ]_vars

\* the root directory (file a, symlink-to-file b, directory s, symlink-to-
\* directory t) was listed, and its only listed file is selected
C16_Witness ==
  /\ pc = "sel"
  /\ current_path = Root
  /\ fs[<<NameB>>] = "symfile" /\ fs[<<NameT>>] = "symdir"
  /\ directories = << <<NameS>> >>
  /\ files = << <<NameA>> >>
  /\ selected_files = << <<NameA>> >>

\* C17: once the interrupt has arrived at a prompt (startup path, navigator,
\* selector, operations menu, new-name prompt, delete confirmation) the
\* session has printed the farewell and ended with status 0, and neither the
\* interrupted step nor any later one renames or unlinks anything.
C17_InterruptUnwinds ==
  [][ interrupted' # "none" =>
        /\ pc' = "done"
        /\ exit' = "interrupt"
        /\ ExitStatus(exit') = 0
        /\ InSeq(Msg("goodbye"), out')
        /\ fs' = fs ]_vars

\* the interrupt came at the new-name prompt of the second selected file,
\* after the first one had been renamed
C17_Witness ==
  /\ interrupted = "rename"
  /\ pc = "done"
  /\ ri = 2
  /\ fs[selected_files[1]] = "none"
  /\ vanished = {}

\* the phase a prompt belongs to; 5 is the ended session
Phase(p) ==
  CASE p = "start" -> 1
    [] p = "nav" -> 2
    [] p \in {"nofiles", "sel"} -> 3
    [] p \in {"menu", "rename", "confirm"} -> 4
    [] OTHER -> 5

\* the step just taken read an Accept word at the navigator prompt
AcceptStep ==
  \E line \in NavLines :
    Lower(Strip(line)) \in AcceptWords /\ NavInput(line)

\* C18: the phases Startup, Navigator, Selector, Operations menu occur in
\* this order and none is re-entered; the Navigator is entered only if the
\* start path exists, the Selector only when the Navigator accepted a
\* directory, the Operations menu only with a non-empty selection; an empty
\* selection (Done, Quit, or a directory without files) ends the session.
C18_PhaseOrdering ==
  [][ /\ Phase(pc') >= Phase(pc)
      /\ (Phase(pc) # 2 /\ Phase(pc') = 2) =>
           pc = "start" /\ exists(fs, current_path')
      /\ (Phase(pc) # 3 /\ Phase(pc') = 3) =>
           pc = "nav" /\ AcceptStep /\ current_path' = current_path
      /\ (Phase(pc) # 4 /\ Phase(pc') = 4) => pc = "sel"
      /\ Phase(pc') = 4 => selected_files' # <<>>
      /\ (pc = "sel" /\ pc' # "sel" /\ selected_files' = <<>>) => pc' = "done"
      /\ (pc = "nofiles" /\ pc' # "nofiles") =>
           pc' = "done" /\ selected_files' = <<>> ]_vars

\* the Operations menu has just been entered, after Startup, Navigator and
\* Selector, with two files selected
C18_Witness ==
  /\ pc = "menu"
  /\ out = <<Msg("menu")>>
  /\ Len(selected_files) = 2
  /\ deleteChosen = FALSE
  /\ fs[selected_files[1]] = "file" /\ fs[selected_files[2]] = "file"

\* the step just taken was another process removing a file
ExternalStep == \E p \in Paths : ExternalRemove(p)

\* C19: a step of the program takes an entry away only from a path that is in
\* the selection; it changes the filesystem only at the new-name prompt or
\* the delete confirmation, never before the Operations menu is entered; and
\* from the Operations menu on Rename, Delete and Size report leave the
\* selection as it is, so that after a successful rename it still holds the
\* original path.
C19_OnlySelectedMutated ==
  [][ ~ExternalStep =>
        /\ \A p \in Paths :
             (fs[p] # "none" /\ fs'[p] = "none") => InSeq(p, selected_files)
        /\ \A p \in Paths :
             (fs[p] = "none" /\ fs'[p] # "none") => pc = "rename"
        /\ fs' # fs => pc \in {"rename", "confirm"}
        /\ Phase(pc) < 4 => fs' = fs
        /\ Phase(pc) = 4 => selected_files' = selected_files
        /\ (pc = "rename" /\ fs' # fs) =>
             /\ fs'[selected_files[ri]] = "none"
             /\ selected_files'[ri] = selected_files[ri] ]_vars

\* the first of two selected files has just been renamed and is still the
\* first element of the selection; a third file of the directory, not
\* selected, is in place
C19_Witness ==
  /\ pc = "rename"
  /\ ri = 2
  /\ vanished = {}
  /\ out = <<MsgP("renamed", selected_files[1])>>
  /\ fs[selected_files[1]] = "none"
  /\ ~InSeq(<<NameS, NameC>>, selected_files)
  /\ fs[<<NameS, NameC>>] \in {"file", "immutable"}

=============================================================================
